---- MODULE Spec2Model ----
(***************************************************************************)
(* Model of the job ingest / notify / remind pipeline of src/src/utils.py, *)
(* of its driver src/src/main.py and of the extractor src/src/reliefweb.py.*)
(*                                                                         *)
(* The database holds two tables: jobs (id, link UNIQUE, title, ...,       *)
(* application_status) and reminders (job_id).  insert_jobs and            *)
(* send_reminders are modelled statement by statement, so that the         *)
(* external actor who edits application_status can act between any two     *)
(* statements of a run.                                                    *)
(***************************************************************************)
EXTENDS Integers, Sequences, FiniteSets, TLC

\* ------------------------------------------------------------------ bounds
MaxBatch == 2                    \* longest jobs list handed to insert_jobs

\* --------------------------------------------------------------- constants
ReminderCap == 15                \* utils.py:278  COALESCE(rc.count, 0) < 15

Links    == {"a", "b"}           \* feed entry links
Titles   == {"Eng", "Ops"}       \* feed entry titles (stand for every non-key column)
Statuses == {"pending", "applied"}
Runs     == {1, 2}               \* run slots (connections)
SeqRuns  == {1}                  \* the slot used when runs follow one another

\* feed locations: the one main() passes (main.py:12) and the one bound to the
\* module-level name rss_feedlink (reliefweb.py:26)
MainLink   == "reliefweb.int/jobs"
ModuleLink == "reliefweb.int/jobs/rss.xml"
Sources    == {MainLink, ModuleLink}

DefaultStatus == "pending"       \* jobs.application_status DEFAULT 'pending'

NoPost == [title |-> "none", ids |-> {}, sent |-> FALSE]

VARIABLES
    jobs,          \* committed rows of table jobs
    reminders,     \* committed rows of table reminders: job_id -> number of rows
    pc,            \* pc[r]: the statement run r executes next
    flow,          \* flow[r]: "ingest" (insert_jobs) or "remind" (send_reminders)
    batch,         \* batch[r]: the jobs argument of insert_jobs
    staged,        \* staged[r]: rows written by r's open transaction, not committed
    new_job_ids,   \* new_job_ids[r]: RETURNING id of the bulk insert (utils.py:215)
    rows,          \* rows[r]: ids fetched by notify_jobs's query (utils.py:100/103)
    posted,        \* posted[r]: the requests.post made by run r, NoPost if none
    ret,           \* ret[r]: value returned by notify_jobs (utils.py:133)
    err,           \* err[r]: exception that ended run r, "none" if none
    prev,          \* history: the batch of the ingest run that committed last
    rerun,         \* history: rerun[r] iff run r was handed the batch prev
    feed,          \* feed[s]: the entries served at feed location s
    mpc,           \* mpc[r]: the line of main.py / reliefweb.py process r is at
    conn,          \* conn[r]: the database connection of process r
    notified       \* history: job id -> number of new-job notifications it was in

vars == <<jobs, reminders, pc, flow, batch, staged, new_job_ids, rows, posted,
          ret, err, prev, rerun, feed, mpc, conn, notified>>

\* what the statements of utils.py leave alone: the feeds, the position of the
\* calling script and its connection handle
proc == <<feed, mpc, conn>>

\* ------------------------------------------------------------------ helpers
Record  == [link : Links, title : Titles]
Batches == UNION {[1..n -> Record] : n \in 0..MaxBatch}

Range(s) == {s[i] : i \in DOMAIN s}
Ids(T)   == {row.id : row \in T}
LinksOf(T) == {row.link : row \in T}

SetMax(S) == IF S = {} THEN 0 ELSE CHOOSE x \in S : \A y \in S : y <= x

\* next value of the jobs.id sequence as seen with table T
NextId(T) == SetMax(Ids(T)) + 1

\* COALESCE(rc.count, 0) over the LEFT JOIN with reminder_count
ReminderCount(rem, id) == IF id \in DOMAIN rem THEN rem[id] ELSE 0

\* ------------------------------------------------------------- SQL statements

\* One VALUES row of INSERT ... ON CONFLICT (link) DO NOTHING RETURNING id:
\* st = [table, other, ret]; table holds the rows the transaction sees, other
\* the rows other open transactions have written (unseen, their ids taken); a
\* row whose link is in the table is skipped.
\* Faulty variants first: no conflict clause; DO UPDATE SET title; RETURNING
\* the id of the conflicting row as well; DO UPDATE SET application_status.
InsertOneMutNoConflict(st, rec) ==
    [st EXCEPT
       !.table = @ \cup {[id |-> NextId(st.table \cup st.other),
                          link |-> rec.link, title |-> rec.title,
                          application_status |-> DefaultStatus]},
       !.ret = Append(@, NextId(st.table \cup st.other))]

InsertOneMutUpdate(st, rec) ==
    IF rec.link \in LinksOf(st.table)
    THEN [st EXCEPT !.table = {IF row.link = rec.link
                               THEN [row EXCEPT !.title = rec.title] ELSE row
                               : row \in st.table}]
    ELSE InsertOneMutNoConflict(st, rec)

InsertOneMutReturnAll(st, rec) ==
    IF rec.link \in LinksOf(st.table)
    THEN [st EXCEPT !.ret =
            Append(@, (CHOOSE row \in st.table : row.link = rec.link).id)]
    ELSE InsertOneMutNoConflict(st, rec)

InsertOneMutResetStatus(st, rec) ==
    IF rec.link \in LinksOf(st.table)
    THEN [st EXCEPT !.table =
            {IF row.link = rec.link
             THEN [row EXCEPT !.application_status = DefaultStatus] ELSE row
             : row \in st.table}]
    ELSE InsertOneMutNoConflict(st, rec)

InsertOne(st, rec) ==
    IF rec.link \in LinksOf(st.table)
    THEN st
    ELSE [st EXCEPT
            !.table = @ \cup {[id |-> NextId(st.table \cup st.other),
                               link |-> rec.link, title |-> rec.title,
                               application_status |-> DefaultStatus]},
            !.ret = Append(@, NextId(st.table \cup st.other))]

\* execute_values(cur, insert_query, values, fetch=True): the VALUES rows are
\* inserted in list order into the table the transaction sees.
RECURSIVE InsertAll(_, _)
InsertAll(st, values) ==
    IF values = <<>> THEN st
    ELSE InsertAll(InsertOne(st, Head(values)), Tail(values))

execute_values(table, other, values) ==
    InsertAll([table |-> table, other |-> other, ret |-> <<>>], values)

\* conn.commit(): the rows the transaction wrote become the committed ones
CommitRows(table, written) ==
    {row \in table : row.id \notin Ids(written)} \cup written

\* the exception path of insert_jobs (utils.py:230-232): print and re-raise,
\* no commit: the committed table stays as it was
\* (faulty variant: the rows written so far committed on the way out)
AfterInsertErrorMutCommit(table, written) == CommitRows(table, written)

AfterInsertError(table, written) == table

\* SELECT ... FROM jobs WHERE application_status = 'pending'
\* (faulty variant: the WHERE clause left out)
PendingMutAll(T) == Ids(T)

Pending(T) == {row.id : row \in {x \in T : x.application_status = "pending"}}

\* the reminder query of send_reminders
\* (faulty variants: inner join with reminder_count; <= 15)
EligibleMutInnerJoin(T, rem) ==
    {id \in Pending(T) : id \in DOMAIN rem /\ rem[id] < ReminderCap}

EligibleMutOffByOne(T, rem) ==
    {id \in Pending(T) : ReminderCount(rem, id) <= ReminderCap}

Eligible(T, rem) ==
    {id \in Pending(T) : ReminderCount(rem, id) < ReminderCap}

\* the rows notify_jobs fetches: 'if new_job_ids:' picks the id-filtered query,
\* otherwise the query handed in by the caller is run as is
\* (faulty variant: the id filter dropped)
NotifyRowsMutDropIdFilter(T, ids, query) == query

NotifyRows(T, ids, query) ==
    IF ids # <<>>
    THEN {id \in Range(ids) : id \in Pending(T)}
    ELSE query

\* the query argument each flow hands to notify_jobs
QueryOf(r) ==
    IF flow[r] = "ingest" THEN Pending(jobs) ELSE Eligible(jobs, reminders)

TitleOf(r) ==
    IF flow[r] = "ingest" THEN "Jobs from Relief Web"
    ELSE "Reminder: Pending Job Applications"

\* executemany("INSERT INTO reminders (job_id) VALUES (%s)", ids)
\* (faulty variant: two rows per id)
AddRemindersMutTwice(rem, ids) ==
    [id \in DOMAIN rem \cup ids |->
        ReminderCount(rem, id) + (IF id \in ids THEN 2 ELSE 0)]

AddReminders(rem, ids) ==
    [id \in DOMAIN rem \cup ids |->
        ReminderCount(rem, id) + (IF id \in ids THEN 1 ELSE 0)]

\* the shape of the state
StoredJob == [id : Nat, link : Links, title : Titles,
              application_status : Statuses]

TypeOK ==
    /\ jobs \subseteq StoredJob
    /\ DOMAIN reminders \subseteq Ids(jobs)
    /\ \A id \in DOMAIN reminders : reminders[id] \in Nat \ {0}
    /\ pc \in [Runs -> {"idle", "commit", "notify_query", "notify_post",
                        "rem_insert", "rem_commit", "done", "failed"}]
    /\ flow \in [Runs -> {"none", "ingest", "remind"}]
    /\ batch \in [Runs -> Batches]
    /\ \A r \in Runs :
         /\ IF flow[r] = "remind" THEN staged[r] \subseteq Ids(jobs)
                                  ELSE staged[r] \subseteq StoredJob
         /\ Range(new_job_ids[r]) \subseteq Nat
         /\ rows[r] \subseteq Ids(jobs)
         /\ posted[r].ids \subseteq Ids(jobs)
         /\ ret[r] \subseteq Ids(jobs)
    /\ err \in [Runs -> {"none", "InsertError", "NotifyError", "TypeError"}]
    /\ prev.batch \in Batches
    /\ rerun \in [Runs -> BOOLEAN]
    /\ feed \in [Sources -> Batches]
    /\ mpc \in [Runs -> {"none", "extract", "insert", "rw_extract", "rw_insert",
                         "exit_ok", "exit_error"}]
    /\ conn \in [Runs -> {"none", "open", "closed"}]
    /\ DOMAIN notified \subseteq Ids(jobs)

\* --------------------------------------------------------------------- Init
Init ==
    /\ jobs = {}
    /\ reminders = <<>>
    /\ pc = [r \in Runs |-> "idle"]
    /\ flow = [r \in Runs |-> "none"]
    /\ batch = [r \in Runs |-> <<>>]
    /\ staged = [r \in Runs |-> {}]
    /\ new_job_ids = [r \in Runs |-> <<>>]
    /\ rows = [r \in Runs |-> {}]
    /\ posted = [r \in Runs |-> NoPost]
    /\ ret = [r \in Runs |-> {}]
    /\ err = [r \in Runs |-> "none"]
    /\ prev = [known |-> FALSE, batch |-> <<>>]
    /\ rerun = [r \in Runs |-> FALSE]
    /\ feed = [s \in Sources |-> <<>>]
    /\ mpc = [r \in Runs |-> "none"]
    /\ conn = [r \in Runs |-> "none"]
    /\ notified = <<>>

Ended(r) == pc[r] \in {"idle", "done", "failed"}

\* locals of a run that starts
Fresh(r) ==
    /\ staged' = [staged EXCEPT ![r] = {}]
    /\ rows' = [rows EXCEPT ![r] = {}]
    /\ posted' = [posted EXCEPT ![r] = NoPost]
    /\ ret' = [ret EXCEPT ![r] = {}]
    /\ err' = [err EXCEPT ![r] = "none"]

\* ------------------------------------------------------------- insert_jobs

\* rows written by the open transactions of the other connections
OthersStaged(r) ==
    UNION {staged[o] : o \in {x \in Runs \ {r} :
                                 flow[x] = "ingest" /\ pc[x] = "commit"}}

\* ON CONFLICT (link) is arbitrated by the unique index on jobs.link: an insert
\* of a link that another open transaction has written waits for that
\* transaction to end
\* (faulty variant: no index, nothing waits)
LinkLockedMutNoIndex(r, b) == FALSE

LinkLocked(r, b) ==
    \E i \in DOMAIN b : b[i].link \in LinksOf(OthersStaged(r))

\* insert_jobs(conn, cur, jobs, ...) up to execute_values (utils.py:183-208)
InsertJobsCore(r, b) ==
    /\ Ended(r)
    /\ ~LinkLocked(r, b)
    /\ LET res == execute_values(jobs, OthersStaged(r), b)
       IN  /\ staged' = [staged EXCEPT ![r] = res.table \ jobs]
           /\ new_job_ids' = [new_job_ids EXCEPT ![r] = res.ret]
    /\ pc' = [pc EXCEPT ![r] = "commit"]
    /\ flow' = [flow EXCEPT ![r] = "ingest"]
    /\ batch' = [batch EXCEPT ![r] = b]
    /\ rows' = [rows EXCEPT ![r] = {}]
    /\ posted' = [posted EXCEPT ![r] = NoPost]
    /\ ret' = [ret EXCEPT ![r] = {}]
    /\ err' = [err EXCEPT ![r] = "none"]
    /\ UNCHANGED <<jobs, reminders, proc, notified>>

InsertJobs(r, b) ==
    /\ InsertJobsCore(r, b)
    /\ UNCHANGED <<prev, rerun>>

\* execute_values or conn.commit() raises when the VALUES rows b, a prefix of
\* the batch, were written: caught at utils.py:230, printed and re-raised; the
\* transaction is left open and ends with the connection
InsertJobsFail(r, b) ==
    /\ Ended(r)
    /\ ~LinkLocked(r, b)
    /\ LET res == execute_values(jobs, OthersStaged(r), b)
       IN  /\ staged' = [staged EXCEPT ![r] = res.table \ jobs]
           /\ jobs' = AfterInsertError(jobs, res.table \ jobs)
    /\ pc' = [pc EXCEPT ![r] = "failed"]
    /\ flow' = [flow EXCEPT ![r] = "ingest"]
    /\ batch' = [batch EXCEPT ![r] = <<>>]
    /\ new_job_ids' = [new_job_ids EXCEPT ![r] = <<>>]
    /\ rows' = [rows EXCEPT ![r] = {}]
    /\ posted' = [posted EXCEPT ![r] = NoPost]
    /\ ret' = [ret EXCEPT ![r] = {}]
    /\ err' = [err EXCEPT ![r] = "InsertError"]
    /\ rerun' = [rerun EXCEPT ![r] = FALSE]
    /\ UNCHANGED <<reminders, prev, proc, notified>>

\* 'if len(new_jobs) > 0' (utils.py:218)
\* (faulty variant: notify_jobs called unconditionally)
ShouldNotifyMutAlways(new) == TRUE

ShouldNotify(new) == Len(new) > 0

\* conn.commit(), then 'if len(new_jobs) > 0' (utils.py:209-218)
CommitCore(r) ==
    /\ pc[r] = "commit"
    /\ jobs' = CommitRows(jobs, staged[r])
    /\ staged' = [staged EXCEPT ![r] = {}]
    /\ batch' = [batch EXCEPT ![r] = <<>>]
    /\ pc' = [pc EXCEPT ![r] =
                IF ShouldNotify(new_job_ids[r]) THEN "notify_query" ELSE "done"]
    /\ UNCHANGED <<reminders, flow, new_job_ids, rows, posted, ret, err, proc,
                   notified>>

Commit(r) ==
    /\ CommitCore(r)
    /\ UNCHANGED <<prev, rerun>>

\* ------------------------------------------------------------- notify_jobs

\* cur.execute(query ...); rows = cur.fetchall()  (utils.py:92-106)
NotifyQuery(r) ==
    /\ pc[r] = "notify_query"
    /\ rows' = [rows EXCEPT ![r] =
                  NotifyRows(jobs,
                             IF flow[r] = "ingest" THEN new_job_ids[r] ELSE <<>>,
                             QueryOf(r))]
    /\ pc' = [pc EXCEPT ![r] = "notify_post"]
    /\ UNCHANGED <<jobs, reminders, flow, batch, staged, new_job_ids, posted,
                   ret, err, prev, rerun, proc, notified>>

\* where the caller of notify_jobs goes on with the returned ids
AfterNotify(r, ids) ==
    IF flow[r] = "remind" /\ ids # {} THEN "rem_insert" ELSE "done"

\* requests.post(...) and 'return [job['id'] for job in jobs]' (utils.py:121-133)
NotifyPostCore(r) ==
    /\ pc[r] = "notify_post"
    /\ posted' = [posted EXCEPT ![r] =
                    [title |-> TitleOf(r), ids |-> rows[r], sent |-> TRUE]]
    /\ ret' = [ret EXCEPT ![r] = rows[r]]
    /\ pc' = [pc EXCEPT ![r] = AfterNotify(r, rows[r])]
    /\ UNCHANGED <<jobs, reminders, flow, batch, staged, new_job_ids, rows, err,
                   prev, rerun, proc>>

NotifyPost(r) ==
    /\ NotifyPostCore(r)
    /\ UNCHANGED notified

\* requests.post raises (transport error): the exception leaves notify_jobs
\* and its caller
\* (faulty variant: the exception caught around the post and dropped, the
\* fetched ids returned as if sent)
PostErrorMutSwallowed(r) ==
    [pc |-> AfterNotify(r, rows[r]), ret |-> rows[r], err |-> "none"]

PostError(r) == [pc |-> "failed", ret |-> {}, err |-> "NotifyError"]

NotifyPostFail(r) ==
    /\ pc[r] = "notify_post"
    /\ pc' = [pc EXCEPT ![r] = PostError(r).pc]
    /\ ret' = [ret EXCEPT ![r] = PostError(r).ret]
    /\ err' = [err EXCEPT ![r] = PostError(r).err]
    /\ UNCHANGED <<jobs, reminders, flow, batch, staged, new_job_ids, rows,
                   posted, prev, rerun, proc, notified>>

\* ---------------------------------------------------------- send_reminders

\* send_reminders(conn, cur) entered: it calls notify_jobs (utils.py:263)
SendReminders(r) ==
    /\ Ended(r)
    /\ pc' = [pc EXCEPT ![r] = "notify_query"]
    /\ flow' = [flow EXCEPT ![r] = "remind"]
    /\ batch' = [batch EXCEPT ![r] = <<>>]
    /\ new_job_ids' = [new_job_ids EXCEPT ![r] = <<>>]
    /\ rerun' = [rerun EXCEPT ![r] = FALSE]
    /\ Fresh(r)
    /\ UNCHANGED <<jobs, reminders, prev, proc, notified>>

\* cur.executemany(INSERT INTO reminders ...) (utils.py:284-288)
RemInsert(r) ==
    /\ pc[r] = "rem_insert"
    /\ staged' = [staged EXCEPT ![r] = ret[r]]
    /\ pc' = [pc EXCEPT ![r] = "rem_commit"]
    /\ UNCHANGED <<jobs, reminders, flow, batch, new_job_ids, rows, posted, ret,
                   err, prev, rerun, proc, notified>>

\* conn.commit() (utils.py:289)
RemCommit(r) ==
    /\ pc[r] = "rem_commit"
    /\ reminders' = AddReminders(reminders, staged[r])
    /\ staged' = [staged EXCEPT ![r] = {}]
    /\ pc' = [pc EXCEPT ![r] = "done"]
    /\ UNCHANGED <<jobs, flow, batch, new_job_ids, rows, posted, ret, err, prev,
                   rerun, proc, notified>>

\* ------------------------------------------------------------ external actor

\* the reviewer of applications edits jobs.application_status of one row
SetStatus(id, s) ==
    /\ \E row \in jobs : row.id = id /\ row.application_status # s
    /\ jobs' = {IF row.id = id THEN [row EXCEPT !.application_status = s] ELSE row
                : row \in jobs}
    /\ UNCHANGED <<reminders, pc, flow, batch, staged, new_job_ids, rows, posted,
                   ret, err, prev, rerun, proc, notified>>

\* --------------------------------------------------------------------- Next
Next ==
    \/ \E r \in SeqRuns, b \in Batches : InsertJobs(r, b)
    \/ \E r \in SeqRuns, b \in Batches : InsertJobsFail(r, b)
    \/ \E r \in SeqRuns : Commit(r)
    \/ \E r \in SeqRuns : NotifyQuery(r)
    \/ \E r \in SeqRuns : NotifyPost(r)
    \/ \E r \in SeqRuns : NotifyPostFail(r)
    \/ \E r \in SeqRuns : SendReminders(r)
    \/ \E r \in SeqRuns : RemInsert(r)
    \/ \E r \in SeqRuns : RemCommit(r)
    \/ \E id \in Ids(jobs), s \in Statuses : SetStatus(id, s)

Spec == Init /\ [][Next]_vars

\* ------------------------------------- the ingest flow with its history kept
\* Successive insert_jobs runs and the external actor (send_reminders neither
\* reads nor writes what insert_jobs does to table jobs).  An ingest run records
\* whether it was handed the batch of the ingest run that committed last, a
\* commit records its batch, and a post counts the jobs it lists.
InsertJobsH(r, b) ==
    /\ InsertJobsCore(r, b)
    /\ rerun' = [rerun EXCEPT ![r] = prev.known /\ prev.batch = b]
    /\ UNCHANGED prev

CommitH(r) ==
    /\ CommitCore(r)
    /\ prev' = [known |-> TRUE, batch |-> batch[r]]
    /\ UNCHANGED rerun

\* the post of an ingest run, with the jobs it lists counted
NotifyPostH(r) ==
    /\ NotifyPostCore(r)
    /\ notified' = [id \in DOMAIN notified \cup rows[r] |->
                      (IF id \in DOMAIN notified THEN notified[id] ELSE 0)
                        + (IF id \in rows[r] THEN 1 ELSE 0)]

NextH ==
    \/ \E r \in SeqRuns, b \in Batches : InsertJobsH(r, b)
    \/ \E r \in SeqRuns, b \in Batches : InsertJobsFail(r, b)
    \/ \E r \in SeqRuns : CommitH(r)
    \/ \E r \in SeqRuns : NotifyQuery(r)
    \/ \E r \in SeqRuns : NotifyPostH(r)
    \/ \E r \in SeqRuns : NotifyPostFail(r)
    \/ \E id \in Ids(jobs), s \in Statuses : SetStatus(id, s)

SpecH == Init /\ [][NextH]_vars

\* ------------------------------------------------ overlapping reminder cycles
\* Two scheduled invocations of send_reminders, each on its own connection,
\* with their statements interleaved, and the external actor.  They start on
\* the store that earlier runs have left: the two jobs of the feed
\* [a Eng, b Ops] ingested in one batch, each with any number of reminders
\* recorded so far, up to the cap.
InitOverlap ==
    /\ jobs = execute_values({}, {}, <<[link |-> "a", title |-> "Eng"],
                                      [link |-> "b", title |-> "Ops"]>>).table
    /\ \E S \in SUBSET {1, 2} : reminders \in [S -> 1..ReminderCap]
    /\ pc = [r \in Runs |-> "idle"]
    /\ flow = [r \in Runs |-> "none"]
    /\ batch = [r \in Runs |-> <<>>]
    /\ staged = [r \in Runs |-> {}]
    /\ new_job_ids = [r \in Runs |-> <<>>]
    /\ rows = [r \in Runs |-> {}]
    /\ posted = [r \in Runs |-> NoPost]
    /\ ret = [r \in Runs |-> {}]
    /\ err = [r \in Runs |-> "none"]
    /\ prev = [known |-> FALSE, batch |-> <<>>]
    /\ rerun = [r \in Runs |-> FALSE]
    /\ feed = [s \in Sources |-> <<>>]
    /\ mpc = [r \in Runs |-> "none"]
    /\ conn = [r \in Runs |-> "none"]
    /\ notified = <<>>

NextOverlap ==
    \/ \E r \in Runs : SendReminders(r)
    \/ \E r \in Runs : NotifyQuery(r)
    \/ \E r \in Runs : NotifyPost(r)
    \/ \E r \in Runs : NotifyPostFail(r)
    \/ \E r \in Runs : RemInsert(r)
    \/ \E r \in Runs : RemCommit(r)
    \/ \E id \in Ids(jobs), s \in Statuses : SetStatus(id, s)

SpecOverlap == InitOverlap /\ [][NextOverlap]_vars

\* --------------------------------------------------- overlapping ingest runs
\* Two invocations of insert_jobs, each on its own connection, with their
\* statements interleaved, and the external actor.
NextIngest ==
    \/ \E r \in Runs, b \in Batches : InsertJobs(r, b)
    \/ \E r \in Runs, b \in Batches : InsertJobsFail(r, b)
    \/ \E r \in Runs : Commit(r)
    \/ \E r \in Runs : NotifyQuery(r)
    \/ \E r \in Runs : NotifyPost(r)
    \/ \E r \in Runs : NotifyPostFail(r)
    \/ \E id \in Ids(jobs), s \in Statuses : SetStatus(id, s)

SpecIngest == Init /\ [][NextIngest]_vars

\* ----------------------------------------------------------- reliefweb.py
\* the module-level name that the body of extract_jobs reads (reliefweb.py:26)
rss_feedlink == ModuleLink

\* the job dict built from one feed entry (reliefweb.py:13-21)
\* extract_jobs(rss_feed_link) (reliefweb.py:8-24): one job dict per entry of
\* feedparser.parse(rss_feedlink), title and link copied from the entry.  The
\* body names rss_feedlink, the module-level name, not its parameter.
JobOf(entry) == [link |-> entry.link, title |-> entry.title]

extract_jobs(rss_feed_link) ==
    LET entries == feed[rss_feedlink]
    IN  [i \in DOMAIN entries |-> JobOf(entries[i])]

\* ------------------------------------------------------------ main.py main()
\* The body of main() (main.py:5-20), run by process r, one call after another.

\* the feeds may hold any entries when the process starts
InitMain ==
    /\ jobs = {}
    /\ reminders = <<>>
    /\ pc = [r \in Runs |-> "idle"]
    /\ flow = [r \in Runs |-> "none"]
    /\ batch = [r \in Runs |-> <<>>]
    /\ staged = [r \in Runs |-> {}]
    /\ new_job_ids = [r \in Runs |-> <<>>]
    /\ rows = [r \in Runs |-> {}]
    /\ posted = [r \in Runs |-> NoPost]
    /\ ret = [r \in Runs |-> {}]
    /\ err = [r \in Runs |-> "none"]
    /\ prev = [known |-> FALSE, batch |-> <<>>]
    /\ rerun = [r \in Runs |-> FALSE]
    /\ feed \in [Sources -> Batches]
    /\ mpc = [r \in Runs |-> "none"]
    /\ conn = [r \in Runs |-> "none"]
    /\ notified = <<>>

Exited(r) == mpc[r] \in {"exit_ok", "exit_error"}

\* conn = utils.db_connection(); cur = conn.cursor()  (main.py:8-9)
MainConnect(r) ==
    /\ mpc[r] = "none" \/ Exited(r)
    /\ conn' = [conn EXCEPT ![r] = "open"]
    /\ mpc' = [mpc EXCEPT ![r] = "extract"]
    /\ pc' = [pc EXCEPT ![r] = "idle"]
    /\ flow' = [flow EXCEPT ![r] = "none"]
    /\ batch' = [batch EXCEPT ![r] = <<>>]
    /\ new_job_ids' = [new_job_ids EXCEPT ![r] = <<>>]
    /\ Fresh(r)
    /\ UNCHANGED <<jobs, reminders, prev, rerun, feed, notified>>

\* jobs = reliefweb.extract_jobs(rss_feedlink)  (main.py:12-14)
MainExtract(r) ==
    /\ mpc[r] = "extract"
    /\ batch' = [batch EXCEPT ![r] = extract_jobs(MainLink)]
    /\ mpc' = [mpc EXCEPT ![r] = "insert"]
    /\ UNCHANGED <<jobs, reminders, pc, flow, staged, new_job_ids, rows, posted,
                   ret, err, prev, rerun, feed, conn, notified>>

\* utils.insert_jobs(conn, cur, jobs, ...) entered  (main.py:15)
MainInsertJobs(r) ==
    /\ mpc[r] = "insert"
    /\ pc[r] = "idle"
    /\ InsertJobs(r, batch[r])

MainInsertJobsFail(r, k) ==
    /\ mpc[r] = "insert"
    /\ pc[r] = "idle"
    /\ k <= Len(batch[r])
    /\ InsertJobsFail(r, SubSeq(batch[r], 1, k))

\* insert_jobs returned: cur.close(); conn.close()  (main.py:19-20)
MainClose(r) ==
    /\ mpc[r] = "insert"
    /\ pc[r] = "done"
    /\ conn' = [conn EXCEPT ![r] = "closed"]
    /\ mpc' = [mpc EXCEPT ![r] = "exit_ok"]
    /\ UNCHANGED <<jobs, reminders, pc, flow, batch, staged, new_job_ids, rows,
                   posted, ret, err, prev, rerun, feed, notified>>

\* insert_jobs raised: the exception leaves main(), which has no handler and
\* no finally; lines 19-20 are not executed
MainRaise(r) ==
    /\ mpc[r] = "insert"
    /\ pc[r] = "failed"
    /\ mpc' = [mpc EXCEPT ![r] = "exit_error"]
    /\ UNCHANGED <<jobs, reminders, pc, flow, batch, staged, new_job_ids, rows,
                   posted, ret, err, prev, rerun, feed, conn, notified>>

NextMain ==
    \/ \E r \in SeqRuns : MainConnect(r)
    \/ \E r \in SeqRuns : MainExtract(r)
    \/ \E r \in SeqRuns : MainInsertJobs(r)
    \/ \E r \in SeqRuns, k \in 0..MaxBatch : MainInsertJobsFail(r, k)
    \/ \E r \in SeqRuns : Commit(r)
    \/ \E r \in SeqRuns : NotifyQuery(r)
    \/ \E r \in SeqRuns : NotifyPost(r)
    \/ \E r \in SeqRuns : NotifyPostFail(r)
    \/ \E r \in SeqRuns : MainClose(r)
    \/ \E r \in SeqRuns : MainRaise(r)
    \/ \E id \in Ids(jobs), s \in Statuses : SetStatus(id, s)

SpecMain == InitMain /\ [][NextMain]_vars

\* ------------------------------------------------------- python main.py
\* The script from its first line: 'import reliefweb' (main.py:2) executes the
\* body of reliefweb.py, whose last statements extract the feed and call
\* insert_jobs (reliefweb.py:26-28).

\* import utils; import reliefweb: the module body starts  (main.py:1-2)
ScriptImport(r) ==
    /\ mpc[r] = "none"
    /\ mpc' = [mpc EXCEPT ![r] = "rw_extract"]
    /\ UNCHANGED <<jobs, reminders, pc, flow, batch, staged, new_job_ids, rows,
                   posted, ret, err, prev, rerun, feed, conn, notified>>

\* jobs = extract_jobs(rss_feedlink)  (reliefweb.py:26-27)
RwExtract(r) ==
    /\ mpc[r] = "rw_extract"
    /\ batch' = [batch EXCEPT ![r] = extract_jobs(rss_feedlink)]
    /\ mpc' = [mpc EXCEPT ![r] = "rw_insert"]
    /\ UNCHANGED <<jobs, reminders, pc, flow, staged, new_job_ids, rows, posted,
                   ret, err, prev, rerun, feed, conn, notified>>

\* insert_jobs(jobs, notification_title=...)  (reliefweb.py:28): the call
\* binds jobs to conn and leaves cur and jobs of
\* insert_jobs(conn, cur, jobs, notification_title) unbound: TypeError before
\* the body runs.  The import fails and main.py ends at line 2.
RwInsertJobs(r) ==
    /\ mpc[r] = "rw_insert"
    /\ err' = [err EXCEPT ![r] = "TypeError"]
    /\ pc' = [pc EXCEPT ![r] = "failed"]
    /\ mpc' = [mpc EXCEPT ![r] = "exit_error"]
    /\ UNCHANGED <<jobs, reminders, flow, batch, staged, new_job_ids, rows,
                   posted, ret, prev, rerun, feed, conn, notified>>

NextScript ==
    \/ \E r \in SeqRuns : ScriptImport(r)
    \/ \E r \in SeqRuns : RwExtract(r)
    \/ \E r \in SeqRuns : RwInsertJobs(r)

SpecScript == InitMain /\ [][NextScript]_vars

\* ------------------------------------------------------------------- claims

\* the steps of a run, as seen in a pair of states
InsertStep(r) == Ended(r) /\ pc'[r] = "commit"
CommitStep(r) == pc[r] = "commit" /\ pc'[r] # "commit"
QueryStep(r)  == pc[r] = "notify_query" /\ pc'[r] = "notify_post"
PostStep(r)   == pc[r] = "notify_post" /\ posted'[r].sent
RemCommitStep(r) == pc[r] = "rem_commit" /\ pc'[r] = "done"

\* the row of table T with link l, and the first record of batch b with link l
RowOf(T, l)   == CHOOSE row \in T : row.link = l
FirstOf(b, l) ==
    b[CHOOSE i \in DOMAIN b :
        /\ b[i].link = l
        /\ \A j \in DOMAIN b : b[j].link = l => i <= j]

\* the table a run's transaction sees: the committed rows and its own
Visible(r) == IF flow[r] = "ingest" THEN jobs \cup staged[r] ELSE jobs

\* C1: in every reachable state no two rows of table jobs share a link, nor do
\* the committed rows together with the rows an ingest run is about to commit.
C1_LinkUnique ==
    /\ \A x, y \in jobs : x.link = y.link => x = y
    /\ \A r \in Runs : \A x, y \in Visible(r) : x.link = y.link => x = y

\* a bulk insert has run on a batch that repeats one link, over a store that
\* already holds the other link, and staged one row only
C1_Witness ==
    \E r \in Runs :
        /\ pc[r] = "commit"
        /\ Len(batch[r]) = 2
        /\ batch[r][1].link = batch[r][2].link
        /\ jobs # {}
        /\ Cardinality(staged[r]) = 1

\* C2: when the insert of a run commits, the ids it returned are exactly the
\* ids of the rows that are in jobs after the commit and were not before, each
\* returned once, and none of them belongs to a link that was stored before.
C2_ReturnsNewIds ==
    [][\A r \in Runs :
         CommitStep(r) =>
           /\ Range(new_job_ids[r]) = Ids(jobs') \ Ids(jobs)
           /\ Len(new_job_ids[r]) = Cardinality(Range(new_job_ids[r]))
           /\ \A row \in jobs' :
                row.id \in Range(new_job_ids[r]) => row.link \notin LinksOf(jobs)
           /\ Cardinality(jobs') = Cardinality(jobs) + Len(new_job_ids[r])
      ]_vars

\* a run has committed one new row into a store that held a row already
C2_Witness ==
    \E r \in Runs :
        /\ flow[r] = "ingest"
        /\ pc[r] = "notify_query"
        /\ Len(new_job_ids[r]) = 1
        /\ Cardinality(jobs) = 2

\* C3: a record whose link is stored leaves the stored row as it was (same id,
\* same title), whatever its own title; of the records of one batch that share
\* a link not yet stored, the first one's title is the one stored.
C3_ConflictSkipped ==
    [][\A r \in Runs :
         /\ InsertStep(r) =>
              \A i \in DOMAIN batch'[r] :
                 LET l == batch'[r][i].link
                 IN  IF l \in LinksOf(jobs)
                     THEN l \notin LinksOf(staged'[r])
                     ELSE /\ l \in LinksOf(staged'[r])
                          /\ \A row \in staged'[r] :
                               row.link = l =>
                                 row.title = FirstOf(batch'[r], l).title
         /\ CommitStep(r) =>
              \A row \in jobs :
                 \A row2 \in jobs' :
                    row2.link = row.link =>
                       row2.id = row.id /\ row2.title = row.title
      ]_vars

\* a bulk insert has run on a record whose link is stored under another title
C3_Witness ==
    \E r \in Runs :
        /\ pc[r] = "commit"
        /\ \E i \in DOMAIN batch[r] :
             /\ batch[r][i].link \in LinksOf(jobs)
             /\ RowOf(jobs, batch[r][i].link).title # batch[r][i].title
        /\ staged[r] = {}

\* C4: an ingest run handed the very batch of the ingest run that committed
\* just before it inserts no row (it returns no id and stages nothing) and makes
\* no dispatch: it never enters notify_jobs.
C4_Idempotent ==
    \A r \in Runs :
        rerun[r] =>
            /\ new_job_ids[r] = <<>>
            /\ staged[r] = {}
            /\ ~posted[r].sent
            /\ pc[r] \in {"commit", "done"}

\* a second run with the same non-empty batch has ended
C4_Witness ==
    \E r \in Runs :
        /\ rerun[r]
        /\ flow[r] = "ingest"
        /\ pc[r] = "done"
        /\ prev.batch # <<>>
        /\ LinksOf(jobs) = {prev.batch[i].link : i \in DOMAIN prev.batch}

\* C5: the rows the query of a reminder cycle fetches are exactly the jobs
\* whose application_status is 'pending' and that have fewer than 15 reminder
\* rows: a pending job with 0 or with 14 rows is fetched, one with 15 is not.
C5_Eligibility ==
    [][\A r \in Runs :
         (flow[r] = "remind" /\ QueryStep(r)) =>
           /\ rows'[r] =
                {row.id : row \in
                    {x \in jobs : /\ x.application_status = "pending"
                                  /\ ReminderCount(reminders, x.id) < 15}}
           /\ \A x \in jobs :
                x.application_status = "pending" =>
                  /\ x.id \notin DOMAIN reminders => x.id \in rows'[r]
                  /\ ReminderCount(reminders, x.id) = 14 => x.id \in rows'[r]
                  /\ ReminderCount(reminders, x.id) = 15 => x.id \notin rows'[r]
      ]_vars

\* a cycle has fetched a pending job with 14 rows and left out one with 15
C5_Witness ==
    \E r \in Runs :
        /\ flow[r] = "remind"
        /\ pc[r] = "notify_post"
        /\ \E x, y \in jobs :
             /\ x.application_status = "pending"
             /\ y.application_status = "pending"
             /\ ReminderCount(reminders, x.id) = 14
             /\ ReminderCount(reminders, y.id) = 15
             /\ rows[r] = {x.id}

\* C6: no run dispatches a notification with an empty record set.
C6_EmptyBatchSkip ==
    \A r \in Runs : posted[r].sent => posted[r].ids # {}

\* C7: the ids an ingest run returns as new were not stored when it started;
\* the rows its notification query fetches are exactly those of these ids that
\* are pending at the query; and the notification it posts holds these rows.
C7_NewJobsOnly ==
    [][\A r \in Runs :
         /\ InsertStep(r) => Range(new_job_ids'[r]) \cap Ids(jobs) = {}
         /\ (flow[r] = "ingest" /\ QueryStep(r)) =>
              rows'[r] =
                {row.id : row \in
                    {x \in jobs : /\ x.id \in Range(new_job_ids[r])
                                  /\ x.application_status = "pending"}}
         /\ (flow[r] = "ingest" /\ PostStep(r)) =>
              /\ posted'[r].ids = rows[r]
              /\ posted'[r].ids \subseteq Range(new_job_ids[r])
      ]_vars

\* an ingest run has posted its new job while an older job is pending
C7_Witness ==
    \E r \in Runs :
        /\ flow[r] = "ingest"
        /\ posted[r].sent
        /\ posted[r].ids # {}
        /\ \E x \in jobs :
             /\ x.application_status = "pending"
             /\ x.id \notin Range(new_job_ids[r])

\* C8 as claimed: in no step taken while a job is non-pending is the job put in
\* a notification, and in no such step does it get a reminder row.
C8_StatusExitAsClaimed ==
    [][\A x \in jobs :
         x.application_status # "pending" =>
           /\ ReminderCount(reminders', x.id) = ReminderCount(reminders, x.id)
           /\ \A r \in Runs : PostStep(r) => x.id \notin posted'[r].ids
      ]_vars

\* C8 as amended: a job that is non-pending when a run executes its
\* notification query (new-job or reminder) is not fetched by it; a run posts
\* only rows its own query fetched, and a job's reminder rows grow only at the
\* commit of a cycle whose query fetched the job and whose post carried it.
C8_StatusExit ==
    [][/\ \A r \in Runs :
            /\ QueryStep(r) =>
                 \A x \in jobs :
                    x.application_status # "pending" => x.id \notin rows'[r]
            /\ PostStep(r) => posted'[r].ids \subseteq rows[r]
       /\ \A x \in jobs :
            ReminderCount(reminders', x.id) # ReminderCount(reminders, x.id) =>
               \E r \in Runs :
                  /\ RemCommitStep(r)
                  /\ x.id \in rows[r]
                  /\ x.id \in posted[r].ids
      ]_vars

\* a cycle has ended that notified a pending job and left out a non-pending
\* job that is still under the cap
C8_Witness ==
    \E r \in Runs :
        /\ flow[r] = "remind"
        /\ pc[r] = "done"
        /\ posted[r].sent
        /\ posted[r].ids # {}
        /\ \E x \in jobs :
             /\ x.application_status # "pending"
             /\ ReminderCount(reminders, x.id) < ReminderCap
             /\ x.id \notin rows[r]
             /\ x.id \notin posted[r].ids

\* C9: table reminders changes only at the commit of a reminder cycle whose
\* notify_jobs call returned ids, and then by exactly one row for each returned
\* id and none for any other job; a cycle whose notify_jobs call returns no id
\* ends without writing.
C9_ReminderRecording ==
    [][/\ reminders' # reminders => \E r \in Runs : RemCommitStep(r)
       /\ \A r \in Runs :
            /\ RemCommitStep(r) =>
                 /\ flow[r] = "remind"
                 /\ ret[r] # {}
                 /\ \A id \in Ids(jobs) \cup DOMAIN reminders \cup DOMAIN reminders' :
                      ReminderCount(reminders', id) =
                         ReminderCount(reminders, id)
                           + (IF id \in ret[r] THEN 1 ELSE 0)
            /\ (flow[r] = "remind" /\ PostStep(r)) =>
                 /\ ret'[r] = rows[r]
                 /\ ret'[r] = {} <=> pc'[r] = "done"
                 /\ ret'[r] # {} <=> pc'[r] = "rem_insert"
            /\ (pc[r] = "rem_insert" /\ pc'[r] # "rem_insert") =>
                 /\ pc'[r] = "rem_commit"
                 /\ staged'[r] = ret[r]
                 /\ reminders' = reminders
      ]_vars

\* a cycle has recorded a reminder for the one job it notified, and none for
\* the other stored job
C9_Witness ==
    \E r \in Runs :
        /\ flow[r] = "remind"
        /\ pc[r] = "done"
        /\ Cardinality(ret[r]) = 1
        /\ \A id \in ret[r] : ReminderCount(reminders, id) = 1
        /\ \E x \in jobs : x.id \notin ret[r] /\ x.id \notin DOMAIN reminders

\* C10: when reminder cycles follow one another, a pending job is fetched by a
\* cycle iff it has fewer than 15 reminder rows; its count is still the fetched
\* one (below 15) until the cycle commits; the commit of a cycle whose dispatch
\* went through raises the count of each fetched job by exactly 1; and no step
\* changes a count otherwise or takes it past 15.
C10_ReminderStateMachine ==
    [][/\ \A id \in Ids(jobs) :
            /\ ReminderCount(reminders', id) \in
                 {ReminderCount(reminders, id), ReminderCount(reminders, id) + 1}
            /\ ReminderCount(reminders', id) <= 15
       /\ \A r \in Runs :
            flow[r] = "remind" =>
              /\ QueryStep(r) =>
                   \A x \in jobs :
                      x.application_status = "pending" =>
                        (x.id \in rows'[r] <=> ReminderCount(reminders, x.id) < 15)
              /\ pc'[r] \in {"notify_post", "rem_insert", "rem_commit"} =>
                   \A id \in rows'[r] : ReminderCount(reminders', id) < 15
              /\ RemCommitStep(r) =>
                   \A id \in rows[r] :
                      ReminderCount(reminders', id) = ReminderCount(reminders, id) + 1
      ]_vars

\* two jobs are stored and pending, one has had its 15 reminders and was left
\* out of the cycle that just gave the other one its second
C10_Witness ==
    \E r \in Runs :
        /\ flow[r] = "remind"
        /\ pc[r] = "done"
        /\ \E x, y \in jobs :
             /\ x.application_status = "pending"
             /\ y.application_status = "pending"
             /\ ReminderCount(reminders, x.id) = 15
             /\ x.id \notin rows[r]
             /\ ret[r] = {y.id}
             /\ ReminderCount(reminders, y.id) = 2

\* C11: a run that has opened a database connection has closed it when it
\* ends, whether it ends normally or with an error.
\* Violated: main() closes the connection only after insert_jobs returns
\* (main.py:19-20); an exception raised by insert_jobs leaves main() with the
\* connection open.
C11_ConnectionReleased ==
    \A r \in SeqRuns : Exited(r) => conn[r] = "closed"

\* C14: what main() hands to insert_jobs is the extraction of the feed whose
\* location it passed to extract_jobs.
\* Violated: extract_jobs parses the module-level rss_feedlink whatever its
\* argument is.
C14_ExtractUsesArgument ==
    \A r \in SeqRuns :
        mpc[r] = "insert" /\ pc[r] = "idle" =>
            batch[r] = [i \in DOMAIN feed[MainLink] |-> JobOf(feed[MainLink][i])]

\* C15: the script run on an empty store, with two entries of distinct links
\* at every feed location, has stored 2 rows and posted one new-job
\* notification with both when it ends.
\* Violated: the import of reliefweb raises TypeError at reliefweb.py:28; no
\* connection is opened, nothing is stored, nothing is posted.
C15_EndToEnd ==
    \A r \in SeqRuns :
        (/\ Exited(r)
         /\ \A s \in Sources :
                Len(feed[s]) = 2 /\ feed[s][1].link # feed[s][2].link)
        => /\ Cardinality(jobs) = 2
           /\ posted[r].sent
           /\ posted[r].ids = Ids(jobs)
           /\ err[r] = "none"

\* the bulk insert of run r raises (a step of the external actor leaves a
\* failed run as it is)
InsertFailStep(r) ==
    /\ Ended(r)
    /\ pc'[r] = "failed"
    /\ pc[r] # "failed" \/ staged'[r] # staged[r] \/ err'[r] # err[r]

\* C12: the rows of table jobs change their number only at the commit of an
\* ingest run, which adds all the rows the run wrote at once, so that every
\* link of its batch is stored afterwards; a bulk insert that raises ends the
\* run with InsertError, leaves table jobs as it was, and none of the rows it
\* had written is among the committed ones while the run stays failed.
C12_BatchAtomic ==
    [][/\ Ids(jobs') # Ids(jobs) =>
            \E r \in Runs : flow[r] = "ingest" /\ CommitStep(r)
       /\ \A r \in Runs :
            /\ (flow[r] = "ingest" /\ CommitStep(r)) =>
                 /\ jobs' = jobs \cup staged[r]
                 /\ Ids(staged[r]) = Range(new_job_ids[r])
                 /\ \A i \in DOMAIN batch[r] : batch[r][i].link \in LinksOf(jobs')
            /\ InsertFailStep(r) =>
                 /\ err'[r] = "InsertError"
                 /\ jobs' = jobs
            /\ (pc'[r] = "failed" /\ err'[r] = "InsertError") =>
                 /\ LinksOf(staged'[r]) \cap LinksOf(jobs') = {}
                 /\ Ids(staged'[r]) \cap Ids(jobs') = {}
      ]_vars

\* a bulk insert has raised after writing a row, over a store that holds
\* another job, and the written row is not stored
C12_Witness ==
    \E r \in Runs :
        /\ pc[r] = "failed"
        /\ err[r] = "InsertError"
        /\ staged[r] # {}
        /\ jobs # {}
        /\ staged[r] \cap jobs = {}

\* C13: an ingest run that committed new rows ends either with its
\* notification posted and no error, or, when the post raised, as failed with
\* NotifyError and nothing posted; in both cases the rows it inserted are
\* stored.
C13_NotifyFailureSurfaced ==
    \A r \in Runs :
        (flow[r] = "ingest" /\ pc[r] \in {"done", "failed"}
           /\ new_job_ids[r] # <<>>) =>
            /\ \/ pc[r] = "done" /\ err[r] = "none" /\ posted[r].sent
               \/ pc[r] = "failed" /\ err[r] = "NotifyError" /\ ~posted[r].sent
            /\ Range(new_job_ids[r]) \subseteq Ids(jobs)

\* the post of an ingest run that had committed two new rows has raised
C13_Witness ==
    \E r \in Runs :
        /\ flow[r] = "ingest"
        /\ pc[r] = "failed"
        /\ err[r] = "NotifyError"
        /\ Len(new_job_ids[r]) = 2
        /\ Range(new_job_ids[r]) \subseteq Ids(jobs)

\* a step of an ingest run or of a reminder cycle (the external actor changes
\* table jobs only)
SystemStep ==
    <<reminders, pc, flow, batch, staged, new_job_ids, rows, posted, ret, err>>'
        # <<reminders, pc, flow, batch, staged, new_job_ids, rows, posted, ret, err>>

\* C16: no step removes a row of table jobs, and every step of an ingest run
\* or of a reminder cycle leaves every stored row as it was, its
\* application_status included: a row changes only in a step of the external
\* actor.
C16_StatusAndRowsKept ==
    [][/\ Ids(jobs) \subseteq Ids(jobs')
       /\ SystemStep => jobs \subseteq jobs'
      ]_vars

\* a bulk insert has run on a record whose link belongs to a stored job that
\* is applied and has been reminded
C16_Witness ==
    \E r \in Runs :
        /\ flow[r] = "ingest"
        /\ pc[r] = "commit"
        /\ \E row \in jobs :
              /\ row.application_status = "applied"
              /\ row.id \in DOMAIN reminders
              /\ \E i \in DOMAIN batch[r] : batch[r][i].link = row.link

\* C17 as claimed: no job has more than 15 reminder rows, reminder cycles
\* overlapping or not.
C17_CapAsClaimed ==
    \A id \in DOMAIN reminders : reminders[id] <= ReminderCap

\* C17: with the statements of two reminder cycles interleaved, a cycle
\* fetches only jobs with fewer than 15 reminder rows; a commit adds at most
\* one row per job; a job's count passes 15 only at the commit of a cycle that
\* had fetched the job, after another cycle's commit took it to 15; and no job
\* has more than 15 + (number of connections - 1) rows.
C17_CapUnderOverlap ==
    [][/\ \A id \in Ids(jobs) :
            /\ ReminderCount(reminders', id) \in
                 {ReminderCount(reminders, id), ReminderCount(reminders, id) + 1}
            /\ ReminderCount(reminders', id) <= ReminderCap + Cardinality(Runs) - 1
            /\ ReminderCount(reminders', id) > ReminderCap
                 /\ ReminderCount(reminders', id) # ReminderCount(reminders, id)
               => \E r \in Runs :
                     /\ RemCommitStep(r)
                     /\ id \in rows[r]
                     /\ ReminderCount(reminders, id) = ReminderCap
       /\ \A r \in Runs :
            (flow[r] = "remind" /\ QueryStep(r)) =>
               \A id \in rows'[r] : ReminderCount(reminders, id) < ReminderCap
      ]_vars

\* two cycles fetched the same job at 14 reminders and both committed: it has
\* 16, while the other job, which neither recorded, is still below the cap
C17_Witness ==
    /\ \A r \in Runs : flow[r] = "remind" /\ pc[r] = "done"
    /\ \E id \in Ids(jobs) :
          /\ ReminderCount(reminders, id) = ReminderCap + 1
          /\ \A r \in Runs : id \in ret[r]
    /\ \E id \in Ids(jobs) : ReminderCount(reminders, id) < ReminderCap

\* the rows written by open transactions
OpenStaged ==
    UNION {staged[r] : r \in {x \in Runs : flow[x] = "ingest" /\ pc[x] = "commit"}}

\* C18: with the statements of two ingest runs interleaved, no two rows of
\* table jobs, committed or about to be, share a link or an id; the ids
\* returned to the two runs are disjoint, and so are the jobs posted in their
\* new-job notifications, each run posting returned ids of its own only.
C18_DedupUnderOverlap ==
    /\ \A x, y \in jobs \cup OpenStaged :
          (x.link = y.link \/ x.id = y.id) => x = y
    /\ \A r, o \in Runs :
          (r # o /\ flow[r] = "ingest" /\ flow[o] = "ingest") =>
             /\ Range(new_job_ids[r]) \cap Range(new_job_ids[o]) = {}
             /\ posted[r].ids \cap posted[o].ids = {}
    /\ \A r \in Runs :
          flow[r] = "ingest" => posted[r].ids \subseteq Range(new_job_ids[r])

\* run 1 has committed link a and is about to post it while run 2, whose
\* batch holds a and b, has written b only
C18_Witness ==
    /\ flow[1] = "ingest" /\ pc[1] = "notify_post"
    /\ \E row \in jobs : row.link = "a" /\ rows[1] = {row.id}
    /\ flow[2] = "ingest" /\ pc[2] = "commit"
    /\ Len(batch[2]) = 2
    /\ {batch[2][1].link, batch[2][2].link} = {"a", "b"}
    /\ LinksOf(staged[2]) = {"b"}

\* number of new-job notifications job id was listed in
NotifiedCount(h, id) == IF id \in DOMAIN h THEN h[id] ELSE 0

\* C19: over successive ingest runs a stored job is listed in at most one
\* new-job notification; a post lists only ids that the bulk insert of the
\* same run returned, and the ids a bulk insert returns are never ids of jobs
\* stored before it, so a job that its own run did not notify (post skipped or
\* failed) is not notified by a later run.
C19_NotifiedAtMostOnce ==
    [][/\ \A id \in Ids(jobs') :
            /\ NotifiedCount(notified', id) <= 1
            /\ NotifiedCount(notified', id) # NotifiedCount(notified, id) =>
                 \E r \in Runs :
                    /\ PostStep(r)
                    /\ id \in Range(new_job_ids[r])
                    /\ id \in posted'[r].ids
       /\ \A r \in Runs :
            InsertStep(r) => Range(new_job_ids'[r]) \cap Ids(jobs) = {}
      ]_vars

\* two jobs are stored and pending; the run that inserted the first ended
\* without notifying it, and a later run has inserted and notified the second
\* alone
C19_Witness ==
    \E r \in Runs :
        /\ flow[r] = "ingest"
        /\ pc[r] = "done"
        /\ posted[r].sent
        /\ Cardinality(jobs) = 2
        /\ \A row \in jobs : row.application_status = "pending"
        /\ posted[r].ids = DOMAIN notified
        /\ Cardinality(DOMAIN notified) = 1

\* C20: a reminder cycle writes nothing up to and including its post; when
\* the post raises, the cycle ends failed with NotifyError, nothing posted,
\* nothing returned and no reminder row written or pending, and it never goes
\* on to the insert; only a cycle whose post went through reaches the insert
\* and the commit of reminder rows.
C20_NoReminderOnNotifyFailure ==
    [][\A r \in Runs :
         flow[r] = "remind" =>
           /\ pc[r] \in {"notify_query", "notify_post", "failed"} =>
                reminders' = reminders
           /\ (pc[r] = "notify_post" /\ pc'[r] = "failed") =>
                /\ err'[r] = "NotifyError"
                /\ ~posted'[r].sent
                /\ ret'[r] = {}
                /\ staged'[r] = {}
           /\ pc[r] = "failed" => pc'[r] \notin {"rem_insert", "rem_commit"}
           /\ pc'[r] \in {"rem_insert", "rem_commit"} =>
                posted'[r].sent /\ err'[r] = "none"
      ]_vars

\* the post of a cycle that had fetched two jobs has raised; the jobs keep
\* the one reminder an earlier cycle gave them
C20_Witness ==
    \E r \in Runs :
        /\ flow[r] = "remind"
        /\ pc[r] = "failed"
        /\ err[r] = "NotifyError"
        /\ Cardinality(rows[r]) = 2
        /\ \A id \in rows[r] : ReminderCount(reminders, id) = 1
====
